---- MODULE Spec2Model ----
(***************************************************************************)
(* Draft / record versioning workflow of invenio-drafts-resources          *)
(* (RecordDraftService in services/records/service.py).                    *)
(*                                                                         *)
(* The store holds Draft rows, Record rows, Parent Lineage Records,        *)
(* Parent State rows and persistent identifiers; the index holds the       *)
(* UUIDs of indexed draft and record documents.  One action per service    *)
(* method; every action runs the whole method (resolve, checks, writes,    *)
(* commit, index calls).                                                   *)
(*                                                                         *)
(* The record API the service calls (Draft.create, Record.create_from,     *)
(* Record.update_from, the ParentField helpers next_draft / create_draft / *)
(* latest_draft and the parent cascade of Draft.delete) follows the        *)
(* written specification of the data model.                                *)
(***************************************************************************)
EXTENDS Integers, FiniteSets, Sequences, TLC

\* ------------------------------------------------------------------ bounds
\* UUIDs that uuid4 may hand out: 1..MaxId
MaxId == 2
\* cap on the commits of already published Records (revision counter bumps)
MaxRev == 1

\* --------------------------------------------------------------- constants
Null == 0
NoFork == -1

Ids == 1..MaxId
\* the UUIDs a row may have: those the calls address, and one more for the
\* draft of a new_version that commits after an interleaved one
Uuids == 1..(MaxId + 1)
\* request threads that may run new_version at the same time
Threads == {"t1", "t2"}
\* a thread that is not inside new_version
NoTxn == [id |-> Null, seen |-> Null]
\* caller supplied content; "bad" does not validate
Data == {"A", "B", "bad"}
\* revision_id a caller may send: None, the draft's current counter, or a
\* counter read before the draft was last written
Tokens == {"none", "current", "stale"}

VARIABLES
    drafts,     \* set of Draft rows [id, parent, fork, deleted, content]
    records,    \* set of Record rows [id, parent, rev, content]
    parents,    \* set of Parent Lineage Records [id, version]
    pstate,     \* set of Parent State rows [parent_id, latest, next]
    pids,       \* identifier status per UUID: "NONE", "NEW", "REGISTERED"
    idxDrafts,  \* UUIDs of the draft documents in the index
    idxRecords, \* UUIDs of the record documents in the index
    nextId,     \* next UUID uuid4 hands out
    txn,        \* per request thread: the new_version call between its
                \* check for a pending draft and its commit
    scenario    \* progress of the create/publish/new_version/update/publish run

store == <<drafts, records, parents, pstate, pids, nextId>>
index == <<idxDrafts, idxRecords>>
vars == <<drafts, records, parents, pstate, pids, idxDrafts, idxRecords,
          nextId, txn, scenario>>

\* ------------------------------------------------------------ row lookups
Row(S) == CHOOSE x \in S : TRUE

\* a lookup that leaves soft-deleted rows out whatever with_deleted says
get_draft_live_only(D, id, with_deleted) ==
    {d \in D : d.id = id /\ ~d.deleted}

\* draft_cls.get_record(id, with_deleted): the rows the query matches
get_draft(D, id, with_deleted) ==
    {d \in D : d.id = id /\ (with_deleted \/ ~d.deleted)}

\* record_cls.get_record(id)
get_record(R, id) == {r \in R : r.id = id}

\* draft_cls.pid.resolve(id_, registered_only=False): the identifier must
\* exist, the draft row must be live
resolve_draft(D, P, id) ==
    IF P[id] = "NONE" THEN {} ELSE get_draft(D, id, FALSE)

\* record_cls.pid.resolve(id_): registered identifiers only
resolve_record(R, P, id) ==
    IF P[id] # "REGISTERED" THEN {} ELSE get_record(R, id)

ParentRow(PR, p) == {x \in PR : x.id = p}
StateRow(PS, p) == {x \in PS : x.parent_id = p}

\* ------------------------------------------------------ service primitives
\* a service that never compares the token
check_revision_id_skipped(draft, revision_id) == TRUE

\* check_revision_id: a token, when given, must equal the stored counter
check_revision_id(draft, revision_id) ==
    revision_id = "none" \/ revision_id = "current"

\* a service that lets every caller through
require_permission_skipped(allowed) == TRUE

\* require_permission: the policy's answer for this identity
require_permission(allowed) == allowed

\* schema.load(..., raise_errors=False): keeps what validates, reports the rest
load_lenient(data) == IF data = "bad" THEN "none" ELSE data
load_errors(data) == data = "bad"

\* a create that leaves raise_errors at its default
create_raise_errors_default == TRUE

\* create, line 134: raise_errors=False, validation errors are reported
create_raise_errors == FALSE

\* a publish that validates with raise_errors=False
load_strict_never_raises(content) == FALSE

\* schema.load(..., raise_errors=True) raises when the content is incomplete
load_strict_raises(content) == content = "none"

\* a commit that leaves the revision counter alone
commit_no_bump(row) == row

\* record.commit() of a row that existed before the call: one UPDATE, so the
\* revision counter grows by one
commit(row) == [row EXCEPT !.rev = @ + 1]

\* an indexer whose delete call does nothing
index_delete_skipped(I, id) == I

\* indexer.index / indexer.delete
index_add(I, id) == I \cup {id}
index_delete(I, id) == I \ {id}

\* what a read that follows an index call may see: the index after the call
\* when the call asked for a refresh, the index before or after it otherwise
visible(before, after, refresh) ==
    IF refresh THEN {after} ELSE {before, after}

\* an index delete that leaves the refresh to the index
delete_refresh_default == FALSE

\* delete_draft, line 350: indexer.delete(draft, refresh=True)
delete_refresh == TRUE

\* delete_draft, line 362: indexer.index(record, arguments={"refresh": True})
record_refresh == TRUE

\* ------------------------------------------------------------- record API
\* Draft.create: a fresh live row
new_draft(id, parent, fork, content) ==
    [id |-> id, parent |-> parent, fork |-> fork, deleted |-> FALSE,
     content |-> content]

\* Draft.delete(force=False): the row stays, flagged deleted, its data dropped
soft_delete(d) == [d EXCEPT !.deleted = TRUE, !.content = "none"]

\* draft.is_published: a Record exists for the draft's UUID
is_published(R, draft) == get_record(R, draft.id) # {}

\* Record.create_from(draft): same UUID and parent, counter initialised
create_from(draft) ==
    [id |-> draft.id, parent |-> draft.parent, rev |-> 0,
     content |-> draft.content]

\* Record.update_from(draft): the content is replaced by the draft's
update_from(record, draft) == [record EXCEPT !.content = draft.content]

\* a publish that forgets to register the identifier
register_skipped(P, id) == P

\* pid.register(): the identifier of the published UUID becomes REGISTERED
register(P, id) == [P EXCEPT ![id] = "REGISTERED"]

\* ParentField.next_draft(record): the live draft Parent State points to
next_draft(D, PS, record) ==
    {d \in D : /\ ~d.deleted
               /\ \E st \in StateRow(PS, record.parent) : st.next = d.id}

\* ParentField.latest_draft(row): the live draft of the latest published UUID
latest_draft(D, PS, row) ==
    {d \in D : /\ ~d.deleted
               /\ \E st \in StateRow(PS, row.parent) : st.latest = d.id}

\* state kept in the parent row itself: writing it bumps the version counter
state_update_in_parent(PR, p) ==
    {IF x.id = p THEN [x EXCEPT !.version = @ + 1] ELSE x : x \in PR}

\* Parent State lives in its own table: writing it leaves the Parent Lineage
\* Record, and so its version counter, alone
state_update(PR, p) == PR

\* Parent State with next_draft_id set to id
set_next(PS, p, id) ==
    {IF st.parent_id = p THEN [st EXCEPT !.next = id] ELSE st : st \in PS}

\* ParentField on Draft.delete: the pointer to a deleted next draft is cleared
clear_next(PS, draft) ==
    {IF st.parent_id = draft.parent /\ st.next = draft.id
        THEN [st EXCEPT !.next = Null] ELSE st : st \in PS}

\* ParentField on Draft.delete: no draft and no record references the parent
last_reference(D, R, p) ==
    /\ \A d \in D : d.parent # p
    /\ \A r \in R : r.parent # p

\* ------------------------------------------------------- pieces of methods
\* a publish that takes the next-draft pointer for the latest pointer
publish_state_latest_from_next(PS, draft) ==
    {IF st.parent_id = draft.parent THEN [st EXCEPT !.latest = st.next]
     ELSE st : st \in PS}

\* publish, line 252: the Parent State is not written ("TODO: state: unset
\* next, update latest")
publish_state(PS, draft) == PS

\* a new_version without the early return
returns_existing_never(nd) == FALSE

\* new_version, line 282: "if next_draft: return"
returns_existing(nd) == nd # {}

\* a delete_draft that always force-deletes
force_always(recs) == TRUE

\* a delete_draft that never force-deletes
force_never(recs) == FALSE

\* delete_draft, line 333: force = False if record else True
force(recs) == recs = {}

\* an edit that revives the soft-deleted row with the fork it was left with
edit_draft_keeps_fork(D, record) ==
    LET rows == get_draft(D, record.id, TRUE)
    IN IF rows # {}
       THEN LET d == Row(rows)
            IN (D \ {d}) \cup
               {IF d.deleted
                THEN [d EXCEPT !.deleted = FALSE,
                               !.content = record.content]
                ELSE d}
       ELSE D \cup {new_draft(record.id, Null, record.rev, record.content)}

\* an edit that creates a draft row without looking for a soft-deleted one
edit_draft_always_creates(D, record) ==
    D \cup {[id |-> record.id, parent |-> record.parent, fork |-> record.rev,
             deleted |-> FALSE, content |-> record.content]}

\* edit, lines 164-186: the draft rows after the revive-or-create step
edit_draft(D, record) ==
    LET rows == get_draft(D, record.id, TRUE)
    IN IF rows # {}
       THEN LET d == Row(rows)
            IN (D \ {d}) \cup
               {IF d.deleted
                THEN [d EXCEPT !.deleted = FALSE,
                               !.content = record.content,
                               !.fork = record.rev]
                ELSE d}
       ELSE D \cup {new_draft(record.id, Null, record.rev, record.content)}

\* ------------------------------------------------------------ bookkeeping
\* how many times published Records were committed again, all together
RECURSIVE Revisions(_)
Revisions(R) ==
    IF R = {} THEN 0
    ELSE LET r == Row(R) IN r.rev + Revisions(R \ {r})

\* the run create, publish, new_version, update_draft, publish, counted in
\* successful calls (a failed call changes nothing and is not counted)
ScenarioStep(s, op, id) ==
    IF s = 0 /\ op = "create" THEN 1
    ELSE IF s = 1 /\ op = "publish" /\ id = 1 THEN 2
    ELSE IF s = 2 /\ op = "new_version" /\ id = 1 THEN 3
    ELSE IF s = 3 /\ op = "update_draft" /\ id = 2 THEN 4
    ELSE IF s = 4 /\ op = "publish" /\ id = 2 THEN 5
    ELSE -1

Done(op, id) == scenario' = ScenarioStep(scenario, op, id) /\ txn' = txn

\* an exception before any write: nothing is committed, nothing indexed
Fail == UNCHANGED vars

\* ------------------------------------------------------------------- Init
Init ==
    /\ drafts = {}
    /\ records = {}
    /\ parents = {}
    /\ pstate = {}
    /\ pids = [i \in Uuids |-> "NONE"]
    /\ idxDrafts = {}
    /\ idxRecords = {}
    /\ nextId = 1
    /\ txn = [t \in Threads |-> NoTxn]
    /\ scenario = 0

\* ParentField.create_draft(record): the next-version draft of the lineage
create_draft(record, id) ==
    /\ drafts' = drafts \cup
          {new_draft(id, record.parent, NoFork, record.content)}
    /\ parents' = {IF x.id = record.parent
                   THEN [x EXCEPT !.version = @ + 1] ELSE x :
                   x \in state_update(parents, record.parent)}
    /\ pstate' = set_next(pstate, record.parent, id)
    /\ pids' = [pids EXCEPT ![id] = "NEW"]
    /\ nextId' = id + 1

\* Draft.delete(force) with the ParentField logic of the deletion
draft_delete(draft, hard) ==
    LET D1 == IF hard THEN drafts \ {draft}
              ELSE (drafts \ {draft}) \cup {soft_delete(draft)}
        PS1 == clear_next(pstate, draft)
        PR1 == IF PS1 # pstate THEN state_update(parents, draft.parent)
               ELSE parents
        cascade == hard /\ last_reference(D1, records, draft.parent)
    IN /\ drafts' = D1
       /\ parents' = IF cascade THEN PR1 \ ParentRow(PR1, draft.parent)
                     ELSE PR1
       /\ pstate' = IF cascade THEN PS1 \ StateRow(PS1, draft.parent)
                    ELSE PS1

\* ------------------------------------------------- outcome of each method
\* what a call made in the current state answers: "ok" or the exception
create_result(allowed) ==
    IF ~require_permission(allowed) THEN "PermissionDenied" ELSE "ok"

update_draft_result(id, allowed, revision_id) ==
    LET found == resolve_draft(drafts, pids, id)
    IN IF found = {} THEN "NotFound"
       ELSE IF ~check_revision_id(Row(found), revision_id) THEN "Conflict"
       ELSE IF ~require_permission(allowed) THEN "PermissionDenied"
       ELSE "ok"

edit_result(id, allowed) ==
    IF resolve_draft(drafts, pids, id) # {}
    THEN IF ~require_permission(allowed) THEN "PermissionDenied" ELSE "ok"
    ELSE IF resolve_record(records, pids, id) = {} THEN "NotFound"
    ELSE IF ~require_permission(allowed) THEN "PermissionDenied"
    ELSE "ok"

\* a publish that resolves the draft before it asks the permission policy
publish_result_resolve_first(id, allowed) ==
    LET found == resolve_draft(drafts, pids, id)
    IN IF found = {} THEN "NotFound"
       ELSE IF ~require_permission(allowed) THEN "PermissionDenied"
       ELSE IF load_strict_raises(Row(found).content) THEN "ValidationFailed"
       ELSE "ok"

publish_result(id, allowed) ==
    LET found == resolve_draft(drafts, pids, id)
    IN IF ~require_permission(allowed) THEN "PermissionDenied"
       ELSE IF found = {} THEN "NotFound"
       ELSE IF load_strict_raises(Row(found).content) THEN "ValidationFailed"
       ELSE "ok"

new_version_result(id, allowed) ==
    IF resolve_record(records, pids, id) = {} THEN "NotFound"
    ELSE IF ~require_permission(allowed) THEN "PermissionDenied"
    ELSE "ok"

delete_draft_result(id, allowed, revision_id) ==
    LET found == resolve_draft(drafts, pids, id)
    IN IF found = {} THEN "NotFound"
       ELSE IF ~check_revision_id(Row(found), revision_id) THEN "Conflict"
       ELSE IF ~require_permission(allowed) THEN "PermissionDenied"
       ELSE "ok"

\* the UUID new_version answers with: the pending next draft's, or a fresh one
new_version_ret(id) ==
    LET nd == next_draft(drafts, pstate,
                         Row(resolve_record(records, pids, id)))
    IN IF returns_existing(nd) THEN Row(nd).id ELSE nextId

\* ---------------------------------------------------------------- actions
create(allowed, data) ==
    /\ nextId <= MaxId
    /\ IF \/ create_result(allowed) # "ok"
          \/ create_raise_errors /\ load_errors(data)
       THEN Fail
       ELSE LET id == nextId
            IN /\ drafts' = drafts \cup
                     {new_draft(id, id, NoFork, load_lenient(data))}
               /\ parents' = parents \cup {[id |-> id, version |-> 1]}
               /\ pstate' = pstate \cup
                     {[parent_id |-> id, latest |-> Null, next |-> Null]}
               /\ pids' = [pids EXCEPT ![id] = "NEW"]
               /\ nextId' = nextId + 1
               /\ idxDrafts' = index_add(idxDrafts, id)
               /\ UNCHANGED <<records, idxRecords>>
               /\ Done("create", id)

\* an update_draft that saves the data in the published Record as well
update_draft_writes_record(id, allowed, data, revision_id) ==
    IF update_draft_result(id, allowed, revision_id) # "ok" THEN Fail
    ELSE LET draft == Row(resolve_draft(drafts, pids, id))
         IN /\ drafts' = (drafts \ {draft}) \cup
                  {[draft EXCEPT !.content = load_lenient(data)]}
            /\ records' = {IF r.id = id
                           THEN [r EXCEPT !.content = load_lenient(data)]
                           ELSE r : r \in records}
            /\ idxDrafts' = index_add(idxDrafts, id)
            /\ UNCHANGED <<parents, pstate, pids, nextId, idxRecords>>
            /\ Done("update_draft", id)

update_draft(id, allowed, data, revision_id) ==
    IF update_draft_result(id, allowed, revision_id) # "ok" THEN Fail
    ELSE LET draft == Row(resolve_draft(drafts, pids, id))
         IN /\ drafts' = (drafts \ {draft}) \cup
                  {[draft EXCEPT !.content = load_lenient(data)]}
            /\ idxDrafts' = index_add(idxDrafts, id)
            /\ UNCHANGED <<records, parents, pstate, pids, nextId,
                           idxRecords>>
            /\ Done("update_draft", id)

\* an edit without the early return: it forks the Record again although a
\* live Draft exists
edit_forks_again(id, allowed) ==
    IF edit_result(id, allowed) # "ok" THEN Fail
    ELSE IF resolve_record(records, pids, id) = {}
    THEN /\ UNCHANGED <<store, index>>
         /\ Done("edit", id)
    ELSE LET record == Row(resolve_record(records, pids, id))
         IN /\ drafts' = {d \in drafts : d.id # id} \cup
                  {new_draft(id, record.parent, record.rev, record.content)}
            /\ idxDrafts' = index_add(idxDrafts, id)
            /\ idxRecords' = index_add(idxRecords, id)
            /\ UNCHANGED <<records, parents, pstate, pids, nextId>>
            /\ Done("edit", id)

edit(id, allowed) ==
    IF edit_result(id, allowed) # "ok" THEN Fail
    ELSE IF resolve_draft(drafts, pids, id) # {}
    THEN /\ UNCHANGED <<store, index>>
         /\ Done("edit", id)
    ELSE LET record == Row(resolve_record(records, pids, id))
         IN /\ drafts' = edit_draft(drafts, record)
            /\ idxDrafts' = index_add(idxDrafts, id)
            /\ idxRecords' = index_add(idxRecords, id)
            /\ UNCHANGED <<records, parents, pstate, pids, nextId>>
            /\ Done("edit", id)

\* a publish that deletes the Draft row for good
publish_hard_deletes(id, allowed) ==
    IF publish_result(id, allowed) # "ok" THEN Fail
    ELSE LET draft == Row(resolve_draft(drafts, pids, id))
         IN /\ IF is_published(records, draft)
               THEN LET record == Row(get_record(records, draft.id))
                    IN /\ Revisions(records) < MaxRev
                       /\ records' = (records \ {record}) \cup
                             {commit(update_from(record, draft))}
                       /\ pids' = pids
               ELSE /\ records' = records \cup {create_from(draft)}
                    /\ pids' = register(pids, draft.id)
            /\ drafts' = drafts \ {draft}
            /\ pstate' = publish_state(pstate, draft)
            /\ idxDrafts' = index_delete(idxDrafts, id)
            /\ idxRecords' = index_add(idxRecords, id)
            /\ UNCHANGED <<parents, nextId>>
            /\ Done("publish", id)

publish(id, allowed) ==
    IF publish_result(id, allowed) # "ok" THEN Fail
    ELSE LET draft == Row(resolve_draft(drafts, pids, id))
         IN /\ IF is_published(records, draft)
               THEN LET record == Row(get_record(records, draft.id))
                    IN /\ Revisions(records) < MaxRev
                       /\ records' = (records \ {record}) \cup
                             {commit(update_from(record, draft))}
                       /\ pids' = pids
               ELSE /\ records' = records \cup {create_from(draft)}
                    /\ pids' = register(pids, draft.id)
            /\ drafts' = (drafts \ {draft}) \cup {soft_delete(draft)}
            /\ pstate' = publish_state(pstate, draft)
            /\ idxDrafts' = index_delete(idxDrafts, id)
            /\ idxRecords' = index_add(idxRecords, id)
            /\ UNCHANGED <<parents, nextId>>
            /\ Done("publish", id)

new_version(id, allowed) ==
    IF new_version_result(id, allowed) # "ok" THEN Fail
    ELSE LET record == Row(resolve_record(records, pids, id))
             nd == next_draft(drafts, pstate, record)
         IN IF returns_existing(nd)
            THEN /\ UNCHANGED <<store, index>>
                 /\ Done("new_version", id)
            ELSE /\ nextId <= MaxId
                 /\ create_draft(record, nextId)
                 /\ idxDrafts' = index_add(idxDrafts, nextId) \cup
                       {d.id : d \in latest_draft(drafts', pstate', record)}
                 /\ UNCHANGED <<records, idxRecords>>
                 /\ Done("new_version", id)

\* a delete_draft that deletes the published Record together with its Draft
delete_draft_with_record(id, allowed, revision_id) ==
    IF delete_draft_result(id, allowed, revision_id) # "ok" THEN Fail
    ELSE LET draft == Row(resolve_draft(drafts, pids, id))
             recs == get_record(records, draft.id)
         IN /\ draft_delete(draft, force(recs))
            /\ records' = records \ recs
            /\ idxDrafts' = index_delete(idxDrafts, id)
            /\ idxRecords' = index_delete(idxRecords, id)
            /\ UNCHANGED <<pids, nextId>>
            /\ Done("delete_draft", id)

delete_draft(id, allowed, revision_id) ==
    IF delete_draft_result(id, allowed, revision_id) # "ok" THEN Fail
    ELSE LET draft == Row(resolve_draft(drafts, pids, id))
             recs == get_record(records, draft.id)
         IN /\ draft_delete(draft, force(recs))
            /\ idxDrafts' = index_delete(idxDrafts, id) \cup
                  {d.id : d \in latest_draft(drafts', pstate', draft)}
            /\ idxRecords' = IF recs # {} THEN index_add(idxRecords, id)
                             ELSE idxRecords
            /\ UNCHANGED <<records, pids, nextId>>
            /\ Done("delete_draft", id)

\* ------------------------------------------- new_version, step by step
\* a commit that writes the parent row whatever version the session read
stale_parent_unchecked(seen, row) == FALSE

\* the parent is a versioned row: the session's UPDATE of it fails
\* (StaleDataError) when the version it read is no longer the stored one
stale_parent(seen, row) == row.version # seen

\* new_version, lines 272-282: resolve, permission, load record.parent and
\* find no pending draft; the call goes on to the creation
new_version_check(t, id) ==
    /\ txn[t] = NoTxn
    /\ t = "t2" => txn["t1"] # NoTxn    \* threads are alike: t1 goes first
    /\ new_version_result(id, TRUE) = "ok"
    /\ LET record == Row(resolve_record(records, pids, id))
           parent == Row(ParentRow(parents, record.parent))
       IN /\ ~returns_existing(next_draft(drafts, pstate, record))
          /\ txn' = [txn EXCEPT ![t] = [id |-> id, seen |-> parent.version]]
    /\ UNCHANGED <<store, index, scenario>>

\* new_version, lines 288-310: create the draft, commit, index; a stale
\* parent row fails the commit and the session is rolled back
new_version_commit(t) ==
    /\ txn[t] # NoTxn
    /\ txn' = [txn EXCEPT ![t] = NoTxn]
    /\ LET record == Row(get_record(records, txn[t].id))
           parent == Row(ParentRow(parents, record.parent))
       IN IF stale_parent(txn[t].seen, parent)
          THEN UNCHANGED <<store, index, scenario>>
          ELSE /\ nextId \in Uuids
               /\ create_draft(record, nextId)
               /\ idxDrafts' = index_add(idxDrafts, nextId) \cup
                     {d.id : d \in latest_draft(drafts', pstate', record)}
               /\ UNCHANGED <<records, idxRecords>>
               /\ scenario' = ScenarioStep(scenario, "new_version", txn[t].id)

\* ------------------------------------------------- calls that break off
\* A storage or index failure breaks a call off at a line of the method.
\* The lines of service.py at which each method writes, commits and indexes:
UpdateLines == {112, 113, 114}
EditLines == {170, 193, 194, 195, 199}
PublishLines == {251, 257, 260, 261, 262, 263}
NewVersionLines == {290, 301, 302, 303}
DeleteLines == {344, 345, 350, 362}
\* the line of db.session.commit() in each method
UpdateCommit == 113
EditCommit == 194
PublishCommit == 261
NewVersionCommit == 302
DeleteCommit == 345

\* a store that commits every write on its own
durable_autocommit(failed_at, write_line, commit_line) ==
    failed_at > write_line

\* a write of the session is in the store after the call broke off only if
\* db.session.commit() had returned: the method has one commit, and what the
\* session holds before it is rolled back
durable(failed_at, write_line, commit_line) == failed_at > commit_line

\* a method that calls the indexer before it writes
indexed_early(failed_at, index_line) == TRUE

\* an indexer call was made only if the call broke off after its line
indexed(failed_at, index_line) == failed_at > index_line

update_draft_fails(id, data, failed_at) ==
    /\ update_draft_result(id, TRUE, "none") = "ok"
    /\ LET draft == Row(resolve_draft(drafts, pids, id))
       IN /\ drafts' = IF durable(failed_at, 112, UpdateCommit)
                       THEN (drafts \ {draft}) \cup
                            {[draft EXCEPT !.content = load_lenient(data)]}
                       ELSE drafts
          /\ idxDrafts' = IF indexed(failed_at, 114)
                          THEN index_add(idxDrafts, id) ELSE idxDrafts
    /\ UNCHANGED <<records, parents, pstate, pids, nextId, idxRecords, txn,
                   scenario>>

edit_fails(id, failed_at) ==
    /\ edit_result(id, TRUE) = "ok"
    /\ resolve_draft(drafts, pids, id) = {}
    /\ LET record == Row(resolve_record(records, pids, id))
       IN /\ drafts' = IF durable(failed_at, 170, EditCommit)
                       THEN edit_draft(drafts, record) ELSE drafts
          /\ idxDrafts' = IF indexed(failed_at, 195)
                          THEN index_add(idxDrafts, id) ELSE idxDrafts
          /\ idxRecords' = IF indexed(failed_at, 199)
                           THEN index_add(idxRecords, id) ELSE idxRecords
    /\ UNCHANGED <<records, parents, pstate, pids, nextId, txn, scenario>>

publish_fails(id, failed_at) ==
    /\ publish_result(id, TRUE) = "ok"
    /\ LET draft == Row(resolve_draft(drafts, pids, id))
       IN /\ IF is_published(records, draft)
             THEN LET record == Row(get_record(records, draft.id))
                  IN /\ Revisions(records) < MaxRev
                     /\ records' = IF durable(failed_at, 259, PublishCommit)
                                    THEN (records \ {record}) \cup
                                         {commit(update_from(record, draft))}
                                    ELSE records
                     /\ pids' = pids
             ELSE /\ records' = IF durable(failed_at, 251, PublishCommit)
                                 THEN records \cup {create_from(draft)}
                                 ELSE records
                  /\ pids' = IF durable(failed_at, 257, PublishCommit)
                              THEN register(pids, draft.id) ELSE pids
          /\ drafts' = IF durable(failed_at, 260, PublishCommit)
                       THEN (drafts \ {draft}) \cup {soft_delete(draft)}
                       ELSE drafts
          /\ pstate' = publish_state(pstate, draft)
          /\ idxDrafts' = IF indexed(failed_at, 262)
                          THEN index_delete(idxDrafts, id) ELSE idxDrafts
          /\ idxRecords' = IF indexed(failed_at, 263)
                           THEN index_add(idxRecords, id) ELSE idxRecords
    /\ UNCHANGED <<parents, nextId, txn, scenario>>

new_version_fails(id, failed_at) ==
    /\ new_version_result(id, TRUE) = "ok"
    /\ LET record == Row(resolve_record(records, pids, id))
       IN /\ ~returns_existing(next_draft(drafts, pstate, record))
          /\ nextId <= MaxId
          /\ IF durable(failed_at, 290, NewVersionCommit)
             THEN create_draft(record, nextId)
             ELSE UNCHANGED <<drafts, parents, pstate, pids, nextId>>
          /\ idxDrafts' = IF indexed(failed_at, 303)
                          THEN index_add(idxDrafts, nextId) ELSE idxDrafts
    /\ UNCHANGED <<records, idxRecords, txn, scenario>>

delete_draft_fails(id, failed_at) ==
    /\ delete_draft_result(id, TRUE, "none") = "ok"
    /\ LET draft == Row(resolve_draft(drafts, pids, id))
           recs == get_record(records, draft.id)
       IN /\ IF durable(failed_at, 344, DeleteCommit)
             THEN draft_delete(draft, force(recs))
             ELSE UNCHANGED <<drafts, parents, pstate>>
          /\ idxDrafts' = IF indexed(failed_at, 350)
                          THEN index_delete(idxDrafts, id) ELSE idxDrafts
          /\ idxRecords' = IF recs # {} /\ indexed(failed_at, 362)
                           THEN index_add(idxRecords, id) ELSE idxRecords
    /\ UNCHANGED <<records, pids, nextId, txn, scenario>>

\* ------------------------------------------------------------------- Next
Next ==
    \/ \E allowed \in BOOLEAN, data \in Data : create(allowed, data)
    \/ \E id \in Ids, allowed \in BOOLEAN, data \in Data, rev \in Tokens :
          update_draft(id, allowed, data, rev)
    \/ \E id \in Ids, allowed \in BOOLEAN : edit(id, allowed)
    \/ \E id \in Ids, allowed \in BOOLEAN : publish(id, allowed)
    \/ \E id \in Ids, allowed \in BOOLEAN : new_version(id, allowed)
    \/ \E id \in Ids, allowed \in BOOLEAN, rev \in Tokens :
          delete_draft(id, allowed, rev)

Spec == Init /\ [][Next]_vars

\* a call of a permitted caller with valid data and no revision token
PermittedCall ==
    \/ create(TRUE, "A")
    \/ \E id \in Ids : update_draft(id, TRUE, "A", "none")
    \/ \E id \in Ids : edit(id, TRUE)
    \/ \E id \in Ids : publish(id, TRUE)
    \/ \E id \in Ids : new_version(id, TRUE)
    \/ \E id \in Ids : delete_draft(id, TRUE, "none")

\* the calls of permitted callers, and new_version calls that interleave
NextConcurrent ==
    \/ PermittedCall
    \/ \E t \in Threads, id \in Ids : new_version_check(t, id)
    \/ \E t \in Threads : new_version_commit(t)

SpecConcurrent == Init /\ [][NextConcurrent]_vars

\* a call that breaks off at one of its lines
FailingCall ==
    \/ \E id \in Ids, line \in UpdateLines : update_draft_fails(id, "A", line)
    \/ \E id \in Ids, line \in EditLines : edit_fails(id, line)
    \/ \E id \in Ids, line \in PublishLines : publish_fails(id, line)
    \/ \E id \in Ids, line \in NewVersionLines : new_version_fails(id, line)
    \/ \E id \in Ids, line \in DeleteLines : delete_draft_fails(id, line)

\* the calls of permitted callers, each of which may break off
NextFailing == PermittedCall \/ FailingCall

SpecFailing == Init /\ [][NextFailing]_vars

\* ================================================================= claims
\* some call of the service
AnyCreate == \E allowed \in BOOLEAN, data \in Data : create(allowed, data)
AnyUpdate ==
    \E id \in Ids, allowed \in BOOLEAN, data \in Data, rev \in Tokens :
       update_draft(id, allowed, data, rev)
AnyEdit == \E id \in Ids, allowed \in BOOLEAN : edit(id, allowed)
AnyPublish == \E id \in Ids, allowed \in BOOLEAN : publish(id, allowed)
AnyDelete ==
    \E id \in Ids, allowed \in BOOLEAN, rev \in Tokens :
       delete_draft(id, allowed, rev)

\* a call by a caller the permission policy denies
DeniedCall ==
    \/ \E data \in Data : create(FALSE, data)
    \/ \E id \in Ids, data \in Data, rev \in Tokens :
          update_draft(id, FALSE, data, rev)
    \/ \E id \in Ids : edit(id, FALSE)
    \/ \E id \in Ids : publish(id, FALSE)
    \/ \E id \in Ids : new_version(id, FALSE)
    \/ \E id \in Ids, rev \in Tokens : delete_draft(id, FALSE, rev)

\* every call that succeeds for a permitted caller is refused with
\* PermissionDenied for a denied one, and no denied call answers "ok"
DeniedAnswer ==
    /\ create_result(FALSE) = "PermissionDenied"
    /\ \A id \in Ids :
          /\ publish_result(id, FALSE) = "PermissionDenied"
          /\ edit_result(id, FALSE) # "ok"
          /\ new_version_result(id, FALSE) # "ok"
          /\ edit_result(id, TRUE) = "ok"
                => edit_result(id, FALSE) = "PermissionDenied"
          /\ new_version_result(id, TRUE) = "ok"
                => new_version_result(id, FALSE) = "PermissionDenied"
          /\ \A rev \in Tokens :
                /\ update_draft_result(id, FALSE, rev) # "ok"
                /\ delete_draft_result(id, FALSE, rev) # "ok"
                /\ update_draft_result(id, TRUE, rev) = "ok"
                      => update_draft_result(id, FALSE, rev)
                            = "PermissionDenied"
                /\ delete_draft_result(id, TRUE, rev) = "ok"
                      => delete_draft_result(id, FALSE, rev)
                            = "PermissionDenied"

\* C1: for create, edit, publish, new_version, update_draft and delete_draft,
\* a call whose permission check denies the caller fails with
\* PermissionDenied and leaves Draft rows, Record rows, Parent Lineage
\* Record, Parent State, identifier status and the index as they were: no
\* denied call has a step that changes the store or the index.
C1_DeniedCallChangesNothing ==
    /\ DeniedAnswer
    /\ ~ENABLED (DeniedCall /\ ~UNCHANGED <<store, index>>)

\* a state in which a permitted caller could publish, delete, make a new
\* version or revive a draft, so that a denied call has something to leave
\* alone
C1_Witness ==
    /\ \E id \in Ids : /\ publish_result(id, TRUE) = "ok"
                       /\ publish_result(id, FALSE) = "PermissionDenied"
                       /\ delete_draft_result(id, FALSE, "none")
                             = "PermissionDenied"
    /\ \E id \in Ids : /\ new_version_result(id, TRUE) = "ok"
                       /\ new_version_result(id, FALSE) = "PermissionDenied"
                       /\ resolve_draft(drafts, pids, id) = {}
                       /\ edit_result(id, FALSE) = "PermissionDenied"

\* strict validation fails on content that is incomplete
Incomplete(content) == content = "none"

\* C2: publish is all-or-nothing: when strict validation of the Draft's
\* content fails, publish fails and the Draft (live, same content), the
\* Record, the Parent State, the identifier status and the index are
\* unchanged.
C2_PublishAllOrNothing ==
    \A id \in Ids :
       \A d \in resolve_draft(drafts, pids, id) :
          Incomplete(d.content) =>
             /\ publish_result(id, TRUE) = "ValidationFailed"
             /\ ~ENABLED (publish(id, TRUE) /\ ~UNCHANGED <<store, index>>)

\* a live, indexed Draft with incomplete content next to a published Record
C2_Witness ==
    \E d \in drafts :
       /\ ~d.deleted
       /\ Incomplete(d.content)
       /\ d.id \in idxDrafts
       /\ publish_result(d.id, TRUE) = "ValidationFailed"
       /\ records # {}

\* the lineage of the Record id has a live Draft as its next version
Pending(id) ==
    \E r \in resolve_record(records, pids, id) :
       next_draft(drafts, pstate, r) # {}

\* the UUID the next new_version call answers with is not the one given
AnswersOtherThan(id, uuid) ==
    \/ new_version_result(id, TRUE)' # "ok"
    \/ new_version_ret(id)' # uuid

\* C3: new_version is idempotent while a next-version Draft is pending: the
\* call after a new_version call answers with the same Draft UUID, and a call
\* made while the Draft is pending creates no Draft, allocates no identifier
\* and changes neither the Parent version counter nor the Parent State.
C3_NewVersionIdempotent ==
    \A id \in Ids :
       new_version_result(id, TRUE) = "ok" =>
          /\ ~ENABLED (new_version(id, TRUE)
                         /\ AnswersOtherThan(id, new_version_ret(id)))
          /\ Pending(id) =>
                ~ENABLED (new_version(id, TRUE)
                            /\ ~UNCHANGED <<store, index>>)

\* a next-version Draft created by new_version is pending
C3_Witness ==
    \E id \in Ids :
       /\ Pending(id)
       /\ new_version_ret(id) # id
       /\ \E p \in parents : p.version = 2

\* after the step the Draft id is soft-deleted: row kept, flagged deleted
SoftDeleted(id) ==
    /\ get_draft(drafts', id, FALSE) = {}
    /\ \E d \in get_draft(drafts', id, TRUE) : d.deleted

\* after the step no Draft row has the UUID id
HardDeleted(id) == get_draft(drafts', id, TRUE) = {}

\* C4: delete_draft of a Draft whose UUID has a published Record soft-deletes
\* it (the row stays and is found with with_deleted=true); delete_draft of a
\* Draft whose UUID has no Record hard-deletes it (no row for the UUID stays).
C4_DeleteSoftOrHard ==
    \A id \in Ids, rev \in Tokens :
       delete_draft_result(id, TRUE, rev) = "ok" =>
          IF get_record(records, id) # {}
          THEN ~ENABLED (delete_draft(id, TRUE, rev) /\ ~SoftDeleted(id))
          ELSE ~ENABLED (delete_draft(id, TRUE, rev) /\ ~HardDeleted(id))

\* one Draft soft-deleted by delete_draft after an edit (its fork is the
\* Record's counter), another hard-deleted (identifier left, no row)
C4_Witness ==
    /\ \E d \in drafts : /\ d.deleted
                         /\ \E r \in records : r.id = d.id /\ r.rev = d.fork
    /\ \E id \in Ids : /\ pids[id] = "NEW"
                       /\ get_draft(drafts, id, TRUE) = {}

\* after the step the UUID id has exactly one Draft row, and it is live
OneLiveDraft(id) ==
    /\ Cardinality(get_draft(drafts', id, TRUE)) = 1
    /\ Cardinality(get_draft(drafts', id, FALSE)) = 1

\* C5: for every UUID that has a Record there is at most one Draft row, and
\* so at most one live Draft; an edit of a published Record leaves exactly
\* one Draft row for the UUID, and it is live.
C5_OneShadowDraft ==
    \A id \in Ids :
       get_record(records, id) # {} =>
          /\ Cardinality(get_draft(drafts, id, TRUE)) <= 1
          /\ edit_result(id, TRUE) = "ok" =>
                ~ENABLED (edit(id, TRUE) /\ ~OneLiveDraft(id))

\* a published Record shadowed by the live Draft edit revived
C5_Witness ==
    \E r \in records :
       \E d \in get_draft(drafts, r.id, FALSE) :
          /\ d.fork = r.rev
          /\ d.id \in idxDrafts

\* after the step the UUID of Draft d has one Record, with d's content and,
\* when a Record existed before, with its revision counter plus one
Published(d) ==
    /\ Cardinality(get_record(records', d.id)) = 1
    /\ \A r \in get_record(records', d.id) :
          /\ r.content = d.content
          /\ \A old \in get_record(records, d.id) : r.rev = old.rev + 1

\* C6: after publish the Record's content is the Draft's content at publish
\* time, and the publish of an edit of an already published Record raises
\* that Record's revision counter by exactly 1.
C6_PublishRoundTrip ==
    \A id \in Ids :
       \A d \in resolve_draft(drafts, pids, id) :
          publish_result(id, TRUE) = "ok" =>
             ~ENABLED (publish(id, TRUE) /\ ~Published(d))

\* a Record published a second time from its shadow Draft
C6_Witness ==
    \E r \in records :
       /\ r.rev = 1
       /\ \E d \in get_draft(drafts, r.id, TRUE) : d.deleted /\ d.fork = 0

\* C7: after create, publish, new_version, update_draft of the new draft and
\* publish of the new draft (UUID 2, lineage 1), the Parent version counter
\* is 2, Record 2 has revision counter 0, Parent State.latest_id is 2 and
\* Parent State.next_draft_id is null.
C7_NewVersionPublished ==
    scenario = 5 =>
       /\ \E p \in parents : p.id = 1 /\ p.version = 2
       /\ \E r \in records : r.id = 2 /\ r.rev = 0
       /\ \E st \in pstate : /\ st.parent_id = 1
                             /\ st.latest = 2
                             /\ st.next = Null

\* a Draft of D or a Record of R references the parent p
References(D, R, p) ==
    \/ \E d \in D : d.parent = p
    \/ \E r \in R : r.parent = p

\* after the step the parent p and its state exist
ParentKept(p) == ParentRow(parents', p) # {} /\ StateRow(pstate', p) # {}

\* after the step the parent p and its state are gone
ParentGone(p) == ParentRow(parents', p) = {} /\ StateRow(pstate', p) = {}

\* C8: a Parent Lineage Record and its Parent State exist whenever a Draft or
\* a Record references them; delete_draft of the last Draft of a lineage
\* that was never published removes both, and delete_draft removes no Parent
\* that another Draft or a Record still references.
C8_ParentLifecycle ==
    /\ \A p \in Ids :
          References(drafts, records, p) =>
             ParentRow(parents, p) # {} /\ StateRow(pstate, p) # {}
    /\ \A id \in Ids, rev \in Tokens :
          \A d \in resolve_draft(drafts, pids, id) :
             delete_draft_result(id, TRUE, rev) = "ok" =>
                IF References(drafts \ {d}, records, d.parent)
                THEN ~ENABLED (delete_draft(id, TRUE, rev)
                                 /\ ~ParentKept(d.parent))
                ELSE ~ENABLED (delete_draft(id, TRUE, rev)
                                 /\ ~ParentGone(d.parent))

\* the only Draft of lineage 1 was deleted and took the Parent with it, while
\* another lineage is alive
C8_Witness ==
    /\ pids[1] = "NEW"
    /\ get_draft(drafts, 1, TRUE) = {}
    /\ ParentRow(parents, 1) = {}
    /\ StateRow(pstate, 1) = {}
    /\ parents # {}

\* the step changes the version counter of a Parent Lineage Record
VersionChanged ==
    \E p \in parents : \E q \in ParentRow(parents', p.id) :
       q.version # p.version

\* the step adds a live next-version Draft to the lineage of Record id and
\* raises that lineage's version counter, and no other, by one
VersionRaisedFor(id) ==
    \E r \in get_record(records, id) :
       /\ \E d \in drafts' \ drafts :
             d.parent = r.parent /\ d.fork = NoFork /\ ~d.deleted
       /\ \A p \in parents : \A q \in ParentRow(parents', p.id) :
             q.version = IF p.id = r.parent THEN p.version + 1
                         ELSE p.version

\* C9: the version counter of a Parent Lineage Record never decreases, and it
\* grows, by one, only in a new_version call that creates a next-version
\* Draft; create, edit, update_draft, publish, delete_draft and a new_version
\* call that answers with the pending draft leave it as it is.
C9_VersionCounter ==
    /\ ~ENABLED (AnyCreate /\ VersionChanged)
    /\ ~ENABLED (AnyUpdate /\ VersionChanged)
    /\ ~ENABLED (AnyEdit /\ VersionChanged)
    /\ ~ENABLED (AnyPublish /\ VersionChanged)
    /\ ~ENABLED (AnyDelete /\ VersionChanged)
    /\ \A id \in Ids, allowed \in BOOLEAN :
          /\ ~ENABLED (new_version(id, allowed)
                         /\ VersionChanged /\ ~VersionRaisedFor(id))
          /\ Pending(id) =>
                ~ENABLED (new_version(id, allowed) /\ VersionChanged)

\* a lineage with a second version whose next-version Draft was deleted again
C9_Witness ==
    \E p \in parents :
       /\ p.version = 2
       /\ \A st \in StateRow(pstate, p.id) : st.next = Null
       /\ \E id \in Ids : pids[id] = "NEW" /\ get_draft(drafts, id, TRUE) = {}

\* C10: Parent State.latest_id is null or the UUID of a published Record of
\* the same lineage, never the UUID of a Draft without Record, and it is
\* null as long as the lineage has no Record.
C10_LatestIsPublished ==
    \A st \in pstate :
       /\ st.latest # Null =>
             \E r \in records : r.id = st.latest /\ r.parent = st.parent_id
       /\ (\A r \in records : r.parent # st.parent_id) => st.latest = Null

\* a lineage with a published Record, republished from an edit while a
\* next-version Draft is pending
C10_Witness ==
    \E st \in pstate :
       /\ st.next # Null
       /\ get_draft(drafts, st.next, FALSE) # {}
       /\ get_record(records, st.next) = {}
       /\ \E r \in records : r.parent = st.parent_id /\ r.rev = 1


\* C11: Parent State.next_draft_id is non-null only if it is the UUID of a
\* live new-version Draft of the same lineage that is not published yet:
\* never a published UUID, a soft-deleted Draft or a missing row.
C11_NextIsPendingDraft ==
    \A st \in pstate :
       st.next # Null =>
          /\ get_record(records, st.next) = {}
          /\ \E d \in get_draft(drafts, st.next, FALSE) :
                d.parent = st.parent_id /\ d.fork = NoFork

\* C12: an identifier is REGISTERED exactly when a Record exists for its
\* UUID, and it is NEW while only a Draft exists for the UUID.
C12_RegisteredIffPublished ==
    \A id \in Ids :
       /\ pids[id] = "REGISTERED" <=> get_record(records, id) # {}
       /\ (get_draft(drafts, id, TRUE) # {} /\ get_record(records, id) = {})
             => pids[id] = "NEW"

\* one UUID published (and being edited again), another one only a Draft
C12_Witness ==
    /\ \E id \in Ids : /\ pids[id] = "REGISTERED"
                       /\ get_record(records, id) # {}
                       /\ get_draft(drafts, id, FALSE) # {}
    /\ \E id \in Ids : /\ pids[id] = "NEW"
                       /\ get_draft(drafts, id, FALSE) # {}
                       /\ get_record(records, id) = {}


\* the step loses a Record: some Record has afterwards no Record with its
\* UUID, its parent and a revision counter at least as high
RecordLost ==
    \E r \in records :
       \A q \in records' :
          ~(q.id = r.id /\ q.parent = r.parent /\ q.rev >= r.rev)

\* C13: published Records are permanent: once a Record exists for a UUID, a
\* Record with that UUID and the same parent exists after every call of
\* edit, update_draft, publish, new_version and delete_draft (and create),
\* and its revision counter never decreases.
C13_RecordsPermanent == [][~RecordLost]_vars

\* a Record published twice whose shadow Draft was revived and deleted again
C13_Witness ==
    \E r \in records :
       /\ r.rev = 1
       /\ \E d \in get_draft(drafts, r.id, TRUE) : d.deleted /\ d.fork = 1

\* a call of new_version
AnyNewVersion == \E id \in Ids, allowed \in BOOLEAN : new_version(id, allowed)

\* C14: creating and modifying a Draft of a published Record does not modify
\* the Record: edit, update_draft and delete_draft (and create and
\* new_version) leave every Record's content and revision counter as they
\* were; only publish changes Records.
C14_DraftLeavesRecord ==
    ~ENABLED ((AnyEdit \/ AnyUpdate \/ AnyDelete \/ AnyCreate
                 \/ AnyNewVersion)
              /\ records' # records)

\* a published Record with a live shadow Draft whose content was updated away
\* from the Record's
C14_Witness ==
    \E r \in records :
       \E d \in get_draft(drafts, r.id, FALSE) :
          /\ d.fork = r.rev
          /\ d.content # r.content
          /\ d.content # "none"


\* C15 as stated: the permission check is the first check of every
\* operation, so a caller without the permission gets PermissionDenied
\* whatever the revision token, the content or the existence of the target.
C15_PermissionFirst ==
    /\ create_result(FALSE) = "PermissionDenied"
    /\ \A id \in Ids :
          /\ publish_result(id, FALSE) = "PermissionDenied"
          /\ edit_result(id, FALSE) = "PermissionDenied"
          /\ new_version_result(id, FALSE) = "PermissionDenied"
          /\ \A rev \in Tokens :
                /\ update_draft_result(id, FALSE, rev) = "PermissionDenied"
                /\ delete_draft_result(id, FALSE, rev) = "PermissionDenied"

\* C15 amended: create and publish check the permission first; edit and
\* new_version resolve their target first, so a missing target is NotFound
\* for every caller; update_draft and delete_draft resolve the Draft and
\* compare the revision token first, so a missing Draft is NotFound and a
\* mismatching token is Conflict for every caller.  Past those checks a
\* caller without the permission gets PermissionDenied, and never
\* ValidationFailed.
C15_PermissionAfterResolve ==
    /\ create_result(FALSE) = "PermissionDenied"
    /\ \A id \in Ids :
          LET live == get_draft(drafts, id, FALSE) # {}
              published == pids[id] = "REGISTERED"
          IN /\ publish_result(id, FALSE) = "PermissionDenied"
             /\ edit_result(id, FALSE) =
                   IF live \/ published THEN "PermissionDenied"
                   ELSE "NotFound"
             /\ new_version_result(id, FALSE) =
                   IF published THEN "PermissionDenied" ELSE "NotFound"
             /\ \A rev \in Tokens :
                   LET answer == IF ~live THEN "NotFound"
                                 ELSE IF rev = "stale" THEN "Conflict"
                                 ELSE "PermissionDenied"
                   IN /\ update_draft_result(id, FALSE, rev) = answer
                      /\ delete_draft_result(id, FALSE, rev) = answer

\* a live Draft with incomplete content (a permitted publish would fail
\* validation, a stale token conflicts) next to a UUID that resolves to
\* nothing
C15_Witness ==
    /\ \E id \in Ids :
          /\ publish_result(id, TRUE) = "ValidationFailed"
          /\ publish_result(id, FALSE) = "PermissionDenied"
          /\ update_draft_result(id, FALSE, "stale") = "Conflict"
          /\ update_draft_result(id, FALSE, "current") = "PermissionDenied"
    /\ \E id \in Ids :
          /\ delete_draft_result(id, FALSE, "none") = "NotFound"
          /\ new_version_result(id, FALSE) = "NotFound"
          /\ publish_result(id, FALSE) = "PermissionDenied"


\* an update_draft or delete_draft call that sends a mismatching token
StaleTokenCall ==
    \/ \E id \in Ids, allowed \in BOOLEAN, data \in Data :
          update_draft(id, allowed, data, "stale")
    \/ \E id \in Ids, allowed \in BOOLEAN : delete_draft(id, allowed, "stale")

\* C16 as stated: update_draft, delete_draft, edit, publish and new_version
\* compare the caller's revision token with the stored counter before any
\* write, and a caller whose token mismatches changes neither store nor
\* index.  edit, publish and new_version have no revision_id parameter: the
\* token their caller holds never reaches the service, so each of their
\* calls is also the call of a caller whose token mismatches.
C16_EveryCallChecksToken ==
    ~ENABLED ((StaleTokenCall \/ AnyEdit \/ AnyPublish \/ AnyNewVersion)
              /\ ~UNCHANGED <<store, index>>)

\* C16 amended: update_draft and delete_draft compare the caller's revision
\* token with the Draft's counter before any write, and on a mismatch they
\* fail with Conflict and leave store and index unchanged; edit, publish and
\* new_version take no revision token and never answer Conflict.
C16_UpdateDeleteCheckToken ==
    /\ \A id \in Ids :
          /\ resolve_draft(drafts, pids, id) # {} =>
                \A allowed \in BOOLEAN :
                   /\ update_draft_result(id, allowed, "stale") = "Conflict"
                   /\ delete_draft_result(id, allowed, "stale") = "Conflict"
          /\ \A allowed \in BOOLEAN :
                /\ edit_result(id, allowed) # "Conflict"
                /\ publish_result(id, allowed) # "Conflict"
                /\ new_version_result(id, allowed) # "Conflict"
    /\ ~ENABLED (StaleTokenCall /\ ~UNCHANGED <<store, index>>)

\* the live shadow Draft of a published Record: a matching token would
\* update or delete it, a mismatching one conflicts
C16_Witness ==
    \E id \in Ids :
       /\ get_record(records, id) # {}
       /\ update_draft_result(id, TRUE, "current") = "ok"
       /\ delete_draft_result(id, TRUE, "none") = "ok"
       /\ update_draft_result(id, TRUE, "stale") = "Conflict"
       /\ delete_draft_result(id, TRUE, "stale") = "Conflict"


\* after the step the fresh UUID id has one Draft row: live, with no fork,
\* holding what validates of data, indexed, without Record, identifier NEW
CreatedDraft(id, data) ==
    /\ pids[id] = "NONE"
    /\ get_draft(drafts, id, TRUE) = {}
    /\ Cardinality(get_draft(drafts', id, TRUE)) = 1
    /\ \A d \in get_draft(drafts', id, TRUE) :
          /\ ~d.deleted
          /\ d.fork = NoFork
          /\ d.content = load_lenient(data)
    /\ id \in idxDrafts'
    /\ get_record(records', id) = {}
    /\ pids'[id] = "NEW"

\* C19: create by a permitted caller succeeds whatever validation errors the
\* data has, and afterwards a live Draft with a fresh UUID and no
\* fork_version_id exists and is indexed, no Record exists for the UUID and
\* its identifier is NEW.
C19_CreateAlwaysSucceeds ==
    /\ create_result(TRUE) = "ok"
    /\ \A data \in Data :
          ~ENABLED (create(TRUE, data) /\ ~CreatedDraft(nextId, data))

\* a Draft created from data that does not validate: live, empty, indexed,
\* the first of its own lineage
C19_Witness ==
    \E d \in drafts :
       /\ ~d.deleted
       /\ d.content = "none"
       /\ d.fork = NoFork
       /\ d.parent = d.id
       /\ d.id \in idxDrafts
       /\ pids[d.id] = "NEW"
       /\ get_record(records, d.id) = {}


\* the live Drafts of lineage p that have no Record yet
InFlight(D, p) ==
    {d \in D : d.parent = p /\ ~d.deleted /\ get_record(records, d.id) = {}}

\* a thread is between the check and the commit of new_version on a lineage
\* whose next-version Draft another call created meanwhile
Overtaken(t) ==
    /\ txn[t] # NoTxn
    /\ \E r \in get_record(records, txn[t].id) :
          InFlight(drafts, r.parent) # {}

UpTo(lines, commit_line) == {line \in lines : line <= commit_line}

\* a call that breaks off before its db.session.commit() has returned
BreaksBeforeCommit ==
    \/ \E id \in Ids, line \in UpTo(UpdateLines, UpdateCommit) :
          update_draft_fails(id, "A", line)
    \/ \E id \in Ids, line \in UpTo(EditLines, EditCommit) :
          edit_fails(id, line)
    \/ \E id \in Ids, line \in UpTo(PublishLines, PublishCommit) :
          publish_fails(id, line)
    \/ \E id \in Ids, line \in UpTo(NewVersionLines, NewVersionCommit) :
          new_version_fails(id, line)
    \/ \E id \in Ids, line \in UpTo(DeleteLines, DeleteCommit) :
          delete_draft_fails(id, line)

\* C17: the mutations of one call are one transaction: a call that fails at
\* any step before its commit leaves the committed store as it was; no
\* committed state has a Record without a REGISTERED identifier, and none
\* has the live unpublished Draft of a half-applied publish beside its
\* Record (a live Draft beside a Record is the Draft of an edit).
C17_AtomicCalls ==
    /\ ~ENABLED (BreaksBeforeCommit /\ ~UNCHANGED store)
    /\ \A r \in records :
          /\ pids[r.id] = "REGISTERED"
          /\ \A d \in get_draft(drafts, r.id, FALSE) : d.fork # NoFork

\* a publish went through its commit and broke off before the Record was
\* indexed: Record, identifier and soft-deleted Draft are all in the store;
\* another Draft is live, whose publish may break off next
C17_Witness ==
    /\ \E r \in records :
          /\ r.id \notin idxRecords
          /\ pids[r.id] = "REGISTERED"
          /\ \E d \in get_draft(drafts, r.id, TRUE) : d.deleted
    /\ \E id \in Ids : publish_result(id, TRUE) = "ok"

\* the step publishes Draft d and makes none of the index calls
CommittedNotIndexed(d) == Published(d) /\ UNCHANGED index

\* C18: index calls come strictly after the commit: a call that breaks off
\* before its commit has returned changes nothing in the index; a publish
\* that breaks off between the commit and the index calls leaves the
\* committed store in place and only the index stale; and the index calls
\* are idempotent, so repeating them gives the index the completed call
\* gives.
C18_IndexAfterCommit ==
    /\ ~ENABLED (BreaksBeforeCommit /\ ~UNCHANGED index)
    /\ \A id \in Ids :
          /\ \A d \in resolve_draft(drafts, pids, id) :
                publish_result(id, TRUE) = "ok" =>
                   ~ENABLED (publish_fails(id, 262) /\ ~CommittedNotIndexed(d))
          /\ index_add(index_add(idxRecords, id), id)
                = index_add(idxRecords, id)
          /\ index_delete(index_delete(idxDrafts, id), id)
                = index_delete(idxDrafts, id)
          /\ id \in index_add(idxRecords, id)
          /\ id \notin index_delete(idxDrafts, id)

\* a stale index: the Draft of a published Record is soft-deleted in the
\* store and still indexed, the Record is not indexed yet
C18_Witness ==
    \E d \in drafts :
       /\ d.deleted
       /\ d.id \in idxDrafts
       /\ d.id \notin idxRecords
       /\ get_record(records, d.id) # {}

\* after the step the UUID id has a live Draft whose content and fork are
\* the content and the revision counter its Record had before the step
ForkedFrom(id) ==
    \E r \in get_record(records, id) :
       /\ get_draft(drafts', id, FALSE) # {}
       /\ \A d \in get_draft(drafts', id, FALSE) :
             d.content = r.content /\ d.fork = r.rev

C22_EditIdempotent ==
    \A id \in Ids :
       get_draft(drafts, id, FALSE) # {} =>
          /\ edit_result(id, TRUE) = "ok"
          /\ ~ENABLED ((\E allowed \in BOOLEAN : edit(id, allowed))
                       /\ ~UNCHANGED <<store, index>>)

\* the Draft edit made of a published Record holds changes that were saved
\* with update_draft and are not published
C22_Witness ==
    \E r \in records :
       \E d \in get_draft(drafts, r.id, FALSE) :
          /\ r.content = "A"
          /\ d.content = "B"
          /\ d.id \in idxDrafts
          /\ edit_result(d.id, TRUE) = "ok"

\* after the step the UUID id has a Record that is indexed and a Draft row
\* that is soft-deleted and not indexed
AfterPublish(id) ==
    /\ get_record(records', id) # {}
    /\ SoftDeleted(id)
    /\ id \notin idxDrafts'
    /\ id \in idxRecords'

\* after the step the soft-deleted Draft row of the UUID id is live again:
\* the same row, with the parent it kept
Revived(id) ==
    \E d \in get_draft(drafts, id, TRUE) :
       /\ d.deleted
       /\ Cardinality(get_draft(drafts', id, TRUE)) = 1
       /\ \A e \in get_draft(drafts', id, TRUE) :
             ~e.deleted /\ e.parent = d.parent

\* C23: after every successful publish the Draft row of the published UUID
\* is still there, soft-deleted, the Draft is not in the index and the Record
\* is; and whenever a Record has no live Draft, its soft-deleted Draft row
\* exists and a later edit revives that row.
C23_PublishKeepsRow ==
    /\ \A id \in Ids :
          publish_result(id, TRUE) = "ok" =>
             ~ENABLED (publish(id, TRUE) /\ ~AfterPublish(id))
    /\ \A r \in records :
          get_draft(drafts, r.id, FALSE) = {} =>
             /\ \E d \in get_draft(drafts, r.id, TRUE) : d.deleted
             /\ edit_result(r.id, TRUE) = "ok"
             /\ ~ENABLED (edit(r.id, TRUE) /\ ~Revived(r.id))

\* a first publish went through: the Record is indexed, the Draft it was
\* made from is soft-deleted as publish left it and is not indexed
C23_Witness ==
    \E r \in records :
       /\ r.rev = 0
       /\ r.id \in idxRecords
       /\ r.id \notin idxDrafts
       /\ \E d \in get_draft(drafts, r.id, TRUE) :
             d.deleted /\ d.fork = NoFork /\ d.parent = r.parent

\* after the step the Draft id is not live, no read sees it in the index,
\* and every read sees the Record of the UUID, when there is one, indexed
\* from a store that has no live Draft for it
Deleted(id) ==
    /\ get_draft(drafts', id, FALSE) = {}
    /\ \A view \in visible(idxDrafts, idxDrafts', delete_refresh) :
          id \notin view
    /\ get_record(records, id) # {} =>
          \A view \in visible(idxRecords, idxRecords', record_refresh) :
             id \in view

\* C24: when delete_draft returns successfully, no later read sees the
\* deleted Draft in the index (the index delete asks for a refresh), and if
\* the UUID has a Record, the Record was indexed again after the Draft's
\* deletion, so that it is indexed from a store without the Draft; this
\* holds also when the index was stale before the call.
C24_DeleteVisible ==
    \A id \in Ids :
       delete_draft_result(id, TRUE, "none") = "ok" =>
          ~ENABLED (delete_draft(id, TRUE, "none") /\ ~Deleted(id))

\* the Draft that edit made of a Record was deleted: its row is soft-deleted
\* with the fork edit gave it, it is out of the index and the Record is in;
\* another Record is missing in the index after a publish that broke off
C24_Witness ==
    /\ \E r \in records :
          /\ r.id \in idxRecords
          /\ r.id \notin idxDrafts
          /\ \E d \in get_draft(drafts, r.id, TRUE) :
                d.deleted /\ d.fork = r.rev
    /\ \E r \in records : r.id \notin idxRecords

\* the step leaves a Draft row that has no parent
ParentlessDraft == \E d \in drafts' : d.parent = Null

\* C25: every UUID that has a Record has a Draft row, live or soft-deleted,
\* with the Record's parent reference, and no Draft row is without parent:
\* the branch of edit that creates a fresh Draft without parent, taken when
\* a published UUID has no Draft row, is never reached.
C25_ShadowRowKept ==
    /\ \A r \in records :
          \E d \in drafts : d.id = r.id /\ d.parent = r.parent
    /\ \A d \in drafts : d.parent # Null
    /\ ~ENABLED (AnyEdit /\ ParentlessDraft)

\* a lineage with two published versions: the row of the second version's
\* Draft is kept soft-deleted with the lineage as parent, the first version
\* is being edited in its revived row
C25_Witness ==
    /\ \E r \in records :
          /\ r.id # r.parent
          /\ \E d \in drafts :
                d.id = r.id /\ d.deleted /\ d.parent = r.parent
    /\ \E r \in records :
          /\ r.id = r.parent
          /\ \E d \in drafts :
                d.id = r.id /\ ~d.deleted /\ d.parent = r.parent

\* the UUIDs of the live Draft rows, and those of the Record rows
LiveDrafts == {d.id : d \in {x \in drafts : ~x.deleted}}
Records == {r.id : r \in records}

====
